---- MODULE Spec2Model ----
(***************************************************************************)
(* Model of the OGP scaffolding: ogp::Protocol (protocol.h, protocol.cc)   *)
(* and the client and server entry points (client.cc, server.cc).          *)
(*                                                                         *)
(* A behaviour is one run of one program: the client binary, the server    *)
(* binary, or a driver that constructs Protocol objects and calls their    *)
(* methods on arbitrary byte strings.                                      *)
(***************************************************************************)
EXTENDS Integers, Sequences, FiniteSets

VARIABLES prog, pc, out, exitCode, live, msg, other, last, pin

vars == <<prog, pc, out, exitCode, live, msg, other, last, pin>>

\* ---------------------------------------------------------------- bounds
MaxByte == 1
MaxLen == 6
MaxObjs == 2
MaxOtherLen == 1

Byte == 0..MaxByte
Strings == UNION {[1..n -> Byte] : n \in 0..MaxLen}
Others == UNION {[1..n -> Byte] : n \in 0..MaxOtherLen}
Objs == 1..MaxObjs

\* ------------------------------------------------------------- constants
kProtocolVersion == 1

\* Size limit of the specified wire codec, scaled down (the specification
\* suggests 16 MiB); the code has no such limit.
maxLength == 2

\* ------------------------------------------------------------ protocol.cc
GetVersion == kProtocolVersion

Serialize_framed(message) ==
    <<kProtocolVersion \div 256, kProtocolVersion % 256>> \o message

Serialize_buffered(message) == last.ret \o message

Serialize(message) == message

Deserialize_strip(data) == IF Len(data) > 0 THEN Tail(data) ELSE data

Deserialize(data) == data

\* --------------------------------------------------------- call records
\* The most recent call of a Protocol method: its name, its argument, the
\* string or number it returned, how it ended, and, for a Deserialize call
\* that was handed the value the call before it (a Serialize) returned, the
\* message that Serialize was given.
NoCall ==
    [op |-> "none", arg |-> <<>>, ret |-> <<>>, num |-> 0,
     outcome |-> "none", chained |-> FALSE, orig |-> <<>>]

CallRec(op, arg, ret, num, chained, orig) ==
    [op |-> op, arg |-> arg, ret |-> ret, num |-> num,
     outcome |-> "returned", chained |-> chained, orig |-> orig]

\* The driver may remember a call to compare later calls against it.
Remember(rec) ==
    \E keep \in BOOLEAN : pin' = IF keep THEN rec ELSE pin

\* The byte strings the driver passes to the Protocol.
Inputs == {msg, other}

\* ------------------------------------------------------------ the driver
Construct(o) ==
    /\ prog = "driver"
    /\ o \notin live
    /\ live' = live \cup {o}
    /\ UNCHANGED <<prog, msg, other, pc, out, exitCode, last, pin>>

Destruct(o) ==
    /\ prog = "driver"
    /\ o \in live
    /\ live' = live \ {o}
    /\ UNCHANGED <<prog, msg, other, pc, out, exitCode, last, pin>>

CallGetVersion(o) ==
    /\ prog = "driver"
    /\ o \in live
    /\ last' = CallRec("GetVersion", <<>>, <<>>, GetVersion, FALSE, <<>>)
    /\ Remember(last')
    /\ UNCHANGED <<prog, msg, other, pc, out, exitCode, live>>

CallSerialize(o, message) ==
    /\ prog = "driver"
    /\ o \in live
    /\ last' = CallRec("Serialize", message, Serialize(message), 0, FALSE, <<>>)
    /\ Remember(last')
    /\ UNCHANGED <<prog, msg, other, pc, out, exitCode, live>>

CallDeserialize(o, data) ==
    /\ prog = "driver"
    /\ o \in live
    /\ last' = CallRec("Deserialize", data, Deserialize(data), 0, FALSE, <<>>)
    /\ Remember(last')
    /\ UNCHANGED <<prog, msg, other, pc, out, exitCode, live>>

\* Deserialize applied to what the preceding Serialize call returned.
CallDeserializeSerialized(o) ==
    /\ prog = "driver"
    /\ o \in live
    /\ last.op = "Serialize"
    /\ last' = CallRec("Deserialize", last.ret, Deserialize(last.ret), 0,
                       TRUE, last.arg)
    /\ Remember(last')
    /\ UNCHANGED <<prog, msg, other, pc, out, exitCode, live>>

\* ------------------------------------------------- client.cc / server.cc
Mains == {"client", "server"}

StartLine(p) ==
    IF p = "client" THEN <<"OGP Client starting...">>
                    ELSE <<"OGP Server starting...">>

ReadyLine(p) ==
    IF p = "client" THEN <<"OGP Client ready">> ELSE <<"OGP Server ready">>

\* operator<< on an unsigned integer: its decimal digits, most significant
\* first.
RECURSIVE Decimal(_)
Decimal(n) ==
    LET digit == <<"0", "1", "2", "3", "4", "5", "6", "7", "8", "9">>[(n % 10) + 1]
    IN  IF n < 10 THEN <<digit>> ELSE Append(Decimal(n \div 10), digit)

VersionLine(v) == <<"Protocol version: ">> \o Decimal(v)

\* line 5
PrintStarting(p) ==
    /\ prog = p
    /\ pc = 5
    /\ out' = Append(out, StartLine(p))
    /\ pc' = 7
    /\ UNCHANGED <<prog, msg, other, exitCode, live, last, pin>>

\* line 7
DeclareProtocol(p) ==
    /\ prog = p
    /\ pc = 7
    /\ live' = live \cup {1}
    /\ pc' = 8
    /\ UNCHANGED <<prog, msg, other, out, exitCode, last, pin>>

PrintVersion_readyFirst(p) ==
    /\ prog = p
    /\ pc = 8
    /\ out' = Append(out, ReadyLine(p))
    /\ pc' = 12
    /\ UNCHANGED <<prog, msg, other, exitCode, live, last, pin>>

\* line 8
PrintVersion(p) ==
    /\ prog = p
    /\ pc = 8
    /\ last' = CallRec("GetVersion", <<>>, <<>>, GetVersion, FALSE, <<>>)
    /\ out' = Append(out, VersionLine(last'.num))
    /\ pc' = 12
    /\ UNCHANGED <<prog, msg, other, exitCode, live, pin>>

\* line 12
PrintReady(p) ==
    /\ prog = p
    /\ pc = 12
    /\ out' = Append(out, ReadyLine(p))
    /\ pc' = 13
    /\ UNCHANGED <<prog, msg, other, exitCode, live, last, pin>>

\* line 13: the local Protocol is destroyed and main returns 0
ReturnZero(p) ==
    /\ prog = p
    /\ pc = 13
    /\ live' = live \ {1}
    /\ exitCode' = 0
    /\ pc' = 0
    /\ UNCHANGED <<prog, msg, other, out, last, pin>>

MainStep(p) ==
    \/ PrintStarting(p)
    \/ DeclareProtocol(p)
    \/ PrintVersion(p)
    \/ PrintReady(p)
    \/ ReturnZero(p)

ClientMain == MainStep("client")

ServerMain == MainStep("server")

\* ---------------------------------------------------------- specification
Init ==
    /\ prog \in Mains \cup {"driver"}
    /\ pc = IF prog \in Mains THEN 5 ELSE 0
    /\ msg \in IF prog \in Mains THEN {<<>>} ELSE Strings
    /\ other \in IF prog \in Mains THEN {<<>>} ELSE Others
    /\ out = <<>>
    /\ exitCode = -1
    /\ live = {}
    /\ last = NoCall
    /\ pin = NoCall

Next ==
    \/ ClientMain
    \/ ServerMain
    \/ \E o \in Objs : Construct(o)
    \/ \E o \in Objs : Destruct(o)
    \/ \E o \in Objs : CallGetVersion(o)
    \/ \E o \in Objs : \E message \in Inputs : CallSerialize(o, message)
    \/ \E o \in Objs : \E data \in Inputs : CallDeserialize(o, data)
    \/ \E o \in Objs : CallDeserializeSerialized(o)

Spec == Init /\ [][Next]_vars

\* A started process keeps running until main returns.
FairSpec == Spec /\ WF_vars(ClientMain) /\ WF_vars(ServerMain)

\* ------------------------------------------------- the specified wire codec
\* Frame layout of the specification: [version: 2][length: 4][payload],
\* integers big-endian.
RECURSIVE BigEndian(_)
BigEndian(bytes) ==
    IF bytes = <<>> THEN 0
    ELSE 256 * BigEndian(SubSeq(bytes, 1, Len(bytes) - 1)) + bytes[Len(bytes)]

HeaderSize == 6

FrameVersion(buf) == BigEndian(SubSeq(buf, 1, 2))

FrameLength(buf) == BigEndian(SubSeq(buf, 3, 6))

FramePayload(buf) == SubSeq(buf, HeaderSize + 1, Len(buf))

\* ------------------------------------------------------------------ claims

\* C1: round trip. Whenever Deserialize is applied to the string that
\* Serialize returned for a message m, it returns m.
C1_RoundTrip ==
    (last.op = "Deserialize" /\ last.chained) => last.ret = last.orig

C1_Witness ==
    /\ last.op = "Deserialize"
    /\ last.chained
    /\ Len(last.orig) >= HeaderSize
    /\ last.ret = last.orig

\* C2 (as claimed): Serialize of a payload of n bytes within the size limit
\* returns 6 + n bytes: version kProtocolVersion on 2 bytes, n on 4 bytes,
\* then the payload.
C2_FrameLayout ==
    (last.op = "Serialize" /\ Len(last.arg) <= maxLength) =>
        /\ last.outcome = "returned"
        /\ Len(last.ret) = HeaderSize + Len(last.arg)
        /\ FrameVersion(last.ret) = kProtocolVersion
        /\ FrameLength(last.ret) = Len(last.arg)
        /\ FramePayload(last.ret) = last.arg

\* C3 (as claimed): Serialize of maxLength + 1 bytes fails with
\* PayloadTooLarge, Serialize of exactly maxLength bytes succeeds, and no
\* longer payload is turned into a frame.
C3_PayloadTooLarge ==
    last.op = "Serialize" =>
        /\ Len(last.arg) = maxLength + 1 => last.outcome = "PayloadTooLarge"
        /\ Len(last.arg) = maxLength => last.outcome = "returned"
        /\ Len(last.arg) > maxLength => last.outcome # "returned"

\* C4 (as claimed): Deserialize of a buffer whose leading frame has a
\* version other than kProtocolVersion fails with VersionMismatch and
\* returns no message.
C4_VersionMismatch ==
    (/\ last.op = "Deserialize"
     /\ Len(last.arg) >= HeaderSize
     /\ FrameVersion(last.arg) # kProtocolVersion) =>
        last.outcome = "VersionMismatch"

\* C5 (as claimed): Deserialize of fewer than 6 bytes, or of a header
\* declaring L with fewer than 6 + L bytes in all, signals that more bytes
\* are needed and returns no message.
C5_NeedMoreBytes ==
    (/\ last.op = "Deserialize"
     /\ \/ Len(last.arg) < HeaderSize
        \/ Len(last.arg) < HeaderSize + FrameLength(last.arg)) =>
        last.outcome = "NeedMoreBytes"

\* C8: in every run of the client and of the server, standard output is at
\* all times a prefix of: startup line, version line with value 1, ready
\* line; a run that has exited printed all three and exited with code 0;
\* and every run does exit.
ExpectedOutput(p) ==
    <<StartLine(p), <<"Protocol version: ", "1">>, ReadyLine(p)>>

C8_OutputInOrder ==
    prog \in Mains =>
        /\ Len(out) <= 3
        /\ out = SubSeq(ExpectedOutput(prog), 1, Len(out))
        /\ exitCode \in {-1, 0}
        /\ exitCode = 0 => out = ExpectedOutput(prog)

C8_MainRuns ==
    /\ []C8_OutputInOrder
    /\ <>(prog \in Mains => exitCode = 0)

C8_Witness ==
    /\ prog = "server"
    /\ exitCode = 0
    /\ out = ExpectedOutput("server")

\* C9: every Serialize and every Deserialize call returns its argument
\* unchanged, and the client and the server hold a Protocol object from
\* its declaration until main returns without calling Serialize or
\* Deserialize.
C9_StubIdentity ==
    /\ last.op \in {"Serialize", "Deserialize"} =>
            last.outcome = "returned" /\ last.ret = last.arg
    /\ prog \in Mains =>
            /\ last.op \in {"none", "GetVersion"}
            /\ pc \in {8, 12, 13} <=> live = {1}

C9_Witness ==
    /\ pin.op = "Serialize"
    /\ pin.arg = <<>>
    /\ pin.ret = <<>>
    /\ last.op = "Deserialize"
    /\ Len(last.arg) >= HeaderSize
    /\ last.ret = last.arg

\* C10: GetVersion always returns kProtocolVersion = 1, and a call returns
\* what an earlier call of the same method on the same argument returned,
\* whatever calls were made before and between them, on whichever objects.
C10_NoHiddenState ==
    /\ last.op = "GetVersion" => last.num = kProtocolVersion /\ last.num = 1
    /\ (pin.op = last.op /\ pin.arg = last.arg) =>
            pin.ret = last.ret /\ pin.num = last.num

C10_Witness ==
    /\ pin.op = "Deserialize"
    /\ pin.chained
    /\ last.op = "Deserialize"
    /\ ~last.chained
    /\ pin.arg = last.arg
    /\ Len(last.arg) > 0
    /\ Cardinality(live) > 1

====
